---- MODULE Spec2Model ----
(***************************************************************************)
(* photo-app: the event bus (internal/events), the capture pipeline        *)
(* (internal/camera), the filter decorator (internal/image), the codec and *)
(* the map storage adapter, modelled as state machines.                    *)
(*                                                                         *)
(* Spec      the EventBus under concurrent callers and reentrant           *)
(*           subscribers (one RWMutex, one observers slice)                *)
(* FairSpec  Spec with weak fairness of every thread's next step           *)
(* PipeSpec  Facade.CaptureAndProcess / QuickCapture on one goroutine over *)
(*           the bus NewApp builds, with a map or an always-failing store  *)
(* DecSpec   a client of image.FilterDecorator: decorators over one        *)
(*           BasicImage, with the arrays behind the Filters slices         *)
(* FaultSpec PipeSpec with one more subscriber whose OnEvent may panic     *)
(* GallerySpec  a Gallery and its sort strategies                          *)
(* CodecSpec    the JPEG and PNG decoders on well-formed and damaged input *)
(* StoreSpec    a client of the MapAdapter alone                           *)
(***************************************************************************)
EXTENDS Integers, Sequences, FiniteSets, TLC

(* ------------------------------ bounds -------------------------------- *)
\* calls (top-level or made from inside OnEvent) all threads may start
MaxCalls == 3
\* subscribers already registered when the behaviour starts
MaxInitObs == 2
\* calls all threads may start in the behaviours checked for termination
MaxFairCalls == 2

\* facade calls of one behaviour of the pipeline
MaxRuns == 1
\* filter names given to one CaptureAndProcess call
MaxFilters == 1
\* bytes of a photo's payload (the factory makes defaultDataSize of them)
MaxData == 1

\* FilterDecorator values the client of the decorators builds
MaxDecs == 2
\* Metadata() results that client keeps
MaxHeld == 2
\* spare capacity of the Filters slice a BasicImage is built with
MaxSpare == 1

\* images a gallery holds
MaxImages == 3

\* payload bytes behind the header of the inputs given to the decoders
MaxWirePayload == 1

(* ----------------------------- universe ------------------------------- *)
Threads == {"t1", "t2"}
\* user-supplied subscribers: identities of Observer values
Subs == {"s1", "s2"}
NoObs == "nil"
NoThread == "none"

\* events.EventType constants
EventImageCaptured == "ImageCaptured"
EventImageProcessed == "ImageProcessed"
EventGallerySorted == "GallerySorted"
EventImageEncoded == "ImageEncoded"

\* events.NewEvent; image 0 is the nil image
NewEvent(eventType, img) == [type |-> eventType, image |-> img]
NoEvent == NewEvent("none", 0)
\* the event each caller publishes (its own Event value)
BusEvent(t) == IF t = "t1" THEN NewEvent(EventGallerySorted, 0)
               ELSE NewEvent(EventImageEncoded, 0)

VARIABLES
    backing,     \* the array behind b.observers (its length is the capacity)
    olen,        \* len(b.observers)
    rw,          \* b.mu: readers per thread, the writer that called Lock
    stacks,      \* per thread, its call stack of frames (top is last)
    budget,      \* calls that may still be started
    regList,     \* ghost: the registrations in force, kept as a plain sequence
    heap,        \* the image objects: BasicImage and FilterDecorator values
    arrays,      \* the arrays behind the Filters slices
    held,        \* Metadata() results a client of the decorators keeps
    store,       \* MapAdapter.data
    storeKind,   \* which Storage the facade was built with
    run,         \* the locals of the facade call in progress
    published,   \* ghost: the events the facade call in progress has published
    stats,       \* StatisticsObserver.count
    thumbs,      \* ThumbnailGeneratorObserver.thumbnails
    clock,       \* time.Now().UnixNano(), as far as it has advanced
    images,      \* Gallery.images
    sorter,      \* Gallery.sorter
    last         \* the last call a client made to the gallery, a decoder or
                 \* the map adapter: its arguments, its results, the state before

busVars == <<backing, olen, rw, stacks, budget, regList>>
decVars == <<arrays, held>>
obsVars == <<stats, thumbs>>
pipeVars == <<heap, store, storeKind, run, published, clock>>
libVars == <<images, sorter, last>>
extVars == <<decVars, libVars, obsVars, pipeVars>>
vars == <<busVars, extVars>>

(* ------------------------------ helpers ------------------------------- *)
Min(a, b) == IF a < b THEN a ELSE b

RECURSIVE CountIn(_, _)
CountIn(x, s) ==
    IF s = <<>> THEN 0
    ELSE (IF Head(s) = x THEN 1 ELSE 0) + CountIn(x, Tail(s))

RECURSIVE RemoveFirst(_, _)
\* s without its first element equal to x
RemoveFirst(s, x) ==
    IF s = <<>> THEN <<>>
    ELSE IF Head(s) = x THEN Tail(s)
    ELSE <<Head(s)>> \o RemoveFirst(Tail(s), x)

Pad(s, n) == [j \in 1..n |-> IF j <= Len(s) THEN s[j] ELSE NoObs]

\* capacity the runtime gives a slice that append has to grow by one element
GrowCap(cap) == IF cap = 0 THEN 1 ELSE 2 * cap

RECURSIVE CapAfter(_)
\* capacity of a slice built by k appends to make([]Observer, 0)
CapAfter(k) ==
    IF k = 0 THEN 0
    ELSE IF k - 1 < CapAfter(k - 1) THEN CapAfter(k - 1) ELSE GrowCap(CapAfter(k - 1))

\* b.observers as a value: the first olen cells of the array
Observers == SubSeq(backing, 1, olen)

(* ------------------------------- frames ------------------------------- *)
Frame(op, pc, o, ev) ==
    [op |-> op, pc |-> pc, o |-> o, ev |-> ev,
     snap |-> <<>>,        \* Notify's local slice `observers`
     n |-> 0,              \* Notify: len of the slice made; Unregister: new len
     i |-> 0,              \* Notify: subscribers invoked so far
     entry |-> <<>>,       \* ghost: regList when Notify took the read lock;
                           \* Unregister: b.observers when its loop began
     changed |-> FALSE,    \* ghost: a registration changed during the delivery
     calls |-> <<>>,       \* ghost: the OnEvent invocations this Notify made
     selfUnreg |-> 0,      \* ghost: position of a subscriber that unregistered itself
     raised |-> 0,         \* ghost: position of the subscriber whose OnEvent panicked
     absent |-> {},        \* ghost: subscribers not registered when Notify was
                           \* called and not registered since
     late |-> FALSE]       \* ghost: OnEvent was entered when its subscriber was
                           \* not registered and every Unregister had returned

Depth(t) == Len(stacks[t])
Top(t) == stacks[t][Depth(t)]
HasTop(t, op, pc) == Depth(t) > 0 /\ Top(t).op = op /\ Top(t).pc = pc
SetTop(t, f) == [stacks EXCEPT ![t] = [@ EXCEPT ![Depth(t)] = f]]
Push(t, f) == [stacks EXCEPT ![t] = Append(@, f)]
Pop(t) == [stacks EXCEPT ![t] = SubSeq(@, 1, Depth(t) - 1)]

TotalReaders == rw.readers["t1"] + rw.readers["t2"]

\* a thread may start a call when it is idle, or from inside a subscriber's OnEvent
CanCall(t) ==
    /\ budget > 0
    /\ \/ Depth(t) = 0
       \/ (Depth(t) > 0 /\ Top(t).op = "OnEvent" /\ Top(t).o \in Subs)

(* ------------------------------- images ------------------------------- *)
NilRef == 0

\* a []byte nil slice, kept apart from the empty slice
NilBytes == <<-1>>

\* the elements of a byte slice; the nil slice has none
BytesOf(d) == IF d = NilBytes THEN <<>> ELSE d
NoErr == "<nil>"

\* image.NewBasicImage; Filters is the slice (farr, flen), farr 0 when it has
\* no array (capacity 0)
BasicObj(id, data, desc, farr, flen) ==
    [kind |-> "basic", id |-> id, data |-> data, desc |-> desc,
     farr |-> farr, flen |-> flen, wrapped |-> NilRef, filter |-> ""]

\* &FilterDecorator{wrapped: img, filter: filter}
DecObj(img, filter) ==
    [kind |-> "dec", id |-> "", data |-> <<>>, desc |-> "",
     farr |-> 0, flen |-> 0, wrapped |-> img, filter |-> filter]

\* a view that answers with an identity of its own
IDOfView(h, r) == h[r].id

RECURSIVE ID(_, _)
\* Image.ID: BasicImage returns its id, FilterDecorator asks the wrapped image
ID(h, r) == IF h[r].kind = "basic" THEN h[r].id ELSE ID(h, h[r].wrapped)

RECURSIVE Data(_, _)
\* Image.Data: BasicImage returns its data, FilterDecorator asks the wrapped image
Data(h, r) == IF h[r].kind = "basic" THEN h[r].data ELSE Data(h, h[r].wrapped)

RECURSIVE ChainDepth(_, _)
\* number of FilterDecorator values around the BasicImage
ChainDepth(h, r) == IF h[r].kind = "basic" THEN 0 ELSE 1 + ChainDepth(h, h[r].wrapped)

RECURSIVE BaseOf(_, _)
BaseOf(h, r) == IF h[r].kind = "basic" THEN r ELSE BaseOf(h, h[r].wrapped)

(* ------------------------------ observers ------------------------------ *)
EventTypes == {EventImageCaptured, EventImageProcessed, EventGallerySorted,
               EventImageEncoded}

\* the subscribers NewApp registers, in its order
AppObservers == <<"logger", "thumb", "stats">>

defaultThumbnailSize == 128

\* a statistics observer that counts every event twice
StatsOnEventTwice(count, ev) ==
    IF ev = NoEvent THEN count ELSE [count EXCEPT ![ev.type] = @ + 2]

\* StatisticsObserver.OnEvent
StatsOnEvent(count, ev) ==
    IF ev = NoEvent THEN count ELSE [count EXCEPT ![ev.type] = @ + 1]

\* ThumbnailGeneratorObserver.OnEvent
ThumbOnEvent(th, h, ev) ==
    IF ev = NoEvent \/ ev.image = NilRef THEN th
    ELSE LET data == Data(h, ev.image)
             size == Min(Len(data), defaultThumbnailSize)
         IN (ID(h, ev.image) :> SubSeq(data, 1, size)) @@ th

\* what the OnEvent of subscriber o does when it is entered; the subscribers
\* of Subs are arbitrary and touch nothing but the bus
OnEventBody(o, ev) ==
    /\ stats' = IF o = "stats" THEN StatsOnEvent(stats, ev) ELSE stats
    /\ thumbs' = IF o = "thumb" THEN ThumbOnEvent(thumbs, heap, ev) ELSE thumbs

NoRun ==
    [op |-> "none", photoType |-> "", filters |-> <<>>, format |-> "", photo |-> NilRef,
     processed |-> NilRef, encoded |-> NilBytes, ret |-> NilBytes, err |-> NoErr,
     saves |-> 0, saveErr |-> NoErr, statsAtEntry |-> [ty \in EventTypes |-> 0], storeAtEntry |-> <<>>]

NoSorter == [kind |-> "nil", ascending |-> FALSE]

\* no call made yet
NoCall ==
    [op |-> "none", arg |-> <<>>, id |-> "", out |-> <<>>, outId |-> "", err |-> NoErr,
     before |-> <<>>, sorter |-> NoSorter,
     after |-> <<>>,       \* Sort: the slice that was passed in, read after the call
     alias |-> FALSE]      \* Sort: the result shares the array of the argument

\* NewGallery, and a client that has called nothing
LibInit ==
    /\ images = <<>>
    /\ sorter = NoSorter
    /\ last = NoCall

\* nothing captured, nothing stored, no decorator client
ExtInit ==
    /\ LibInit
    /\ heap = <<>>
    /\ arrays = <<>>
    /\ held = <<>>
    /\ store = <<>>
    /\ run = NoRun
    /\ published = <<>>
    /\ stats = [ty \in EventTypes |-> 0]
    /\ thumbs = <<>>
    /\ clock = 0

(* ---------------------------- initial state --------------------------- *)
InitLists == UNION {[1..k -> Subs] : k \in 0..MaxInitObs}

\* NewEventBus, followed by the Register calls that built the starting list
InitBus(calls) ==
    /\ \E l \in InitLists :
          /\ backing = Pad(l, CapAfter(Len(l)))
          /\ olen = Len(l)
          /\ regList = l
    /\ rw = [readers |-> [t \in Threads |-> 0], w |-> NoThread]
    /\ stacks = [t \in Threads |-> <<>>]
    /\ budget = calls
    /\ storeKind = "map"
    /\ ExtInit

Init == InitBus(MaxCalls)

FairInit == InitBus(MaxFairCalls)

(* ------------------------------- calls -------------------------------- *)
CallRegister(t) ==
    /\ CanCall(t)
    /\ \E o \in Subs : stacks' = Push(t, Frame("Register", "lock", o, NoEvent))
    /\ budget' = budget - 1
    /\ UNCHANGED <<backing, olen, rw, regList, extVars>>

CallUnregister(t) ==
    /\ CanCall(t)
    /\ \E o \in Subs : stacks' = Push(t, Frame("Unregister", "lock", o, NoEvent))
    /\ budget' = budget - 1
    /\ UNCHANGED <<backing, olen, rw, regList, extVars>>

CallNotify(t) ==
    /\ CanCall(t)
    /\ stacks' = Push(t, [Frame("Notify", "rlock", NoObs, BusEvent(t)) EXCEPT
                             !.absent = {s \in Subs : CountIn(s, regList) = 0}])
    /\ budget' = budget - 1
    /\ UNCHANGED <<backing, olen, rw, regList, extVars>>

CallObserverCount(t) ==
    /\ CanCall(t)
    /\ stacks' = Push(t, Frame("ObserverCount", "rlock", NoObs, NoEvent))
    /\ budget' = budget - 1
    /\ UNCHANGED <<backing, olen, rw, regList, extVars>>

(* ------------------------------ b.mu ---------------------------------- *)
\* a mutex whose writers do not exclude each other
CanAnnounceAnyTime(t) == TRUE

\* RWMutex.Lock, first half: the writer announces itself; from here on new
\* readers wait.  Writers exclude each other.
CanAnnounce(t) == rw.w = NoThread

\* RWMutex.Lock, second half: the announced writer waits for the readers to leave
CanAcquire(t) == rw.w = t /\ TotalReaders = 0

\* a read lock that does not wait for the writer
CanRLockIgnoringWriter(t) == TRUE

\* RWMutex.RLock: a reader enters unless a writer holds or waits for the lock
CanRLock(t) == rw.w = NoThread

Lock(t) ==
    /\ Depth(t) > 0
    /\ Top(t).op \in {"Register", "Unregister"}
    /\ Top(t).pc = "lock"
    /\ CanAnnounce(t)
    /\ rw' = [rw EXCEPT !.w = t]
    /\ stacks' = SetTop(t, [Top(t) EXCEPT !.pc = "lockwait"])
    /\ UNCHANGED <<backing, olen, budget, regList, extVars>>

LockAcquire(t) ==
    /\ Depth(t) > 0
    /\ Top(t).op \in {"Register", "Unregister"}
    /\ Top(t).pc = "lockwait"
    /\ CanAcquire(t)
    /\ stacks' = SetTop(t, [Top(t) EXCEPT !.pc = "body"])
    /\ UNCHANGED <<backing, olen, rw, budget, regList, extVars>>

\* the deferred b.mu.Unlock() and the return of Register / Unregister
Unlock(t) ==
    /\ Depth(t) > 0
    /\ Top(t).op \in {"Register", "Unregister"}
    /\ Top(t).pc = "unlock"
    /\ rw' = [rw EXCEPT !.w = NoThread]
    /\ stacks' = Pop(t)
    /\ UNCHANGED <<backing, olen, budget, regList, extVars>>

\* ghost: every Notify that is delivering sees that a registration changed
MarkChanged(stks) ==
    [u \in Threads |->
        [k \in 1..Len(stks[u]) |->
            IF stks[u][k].op = "Notify" /\ stks[u][k].pc = "iter"
            THEN [stks[u][k] EXCEPT !.changed = TRUE]
            ELSE stks[u][k]]]

\* ghost: subscriber o is registered again for every Notify in progress
MarkRegistered(stks, o) ==
    [u \in Threads |->
        [k \in 1..Len(stks[u]) |->
            IF stks[u][k].op = "Notify"
            THEN [stks[u][k] EXCEPT !.absent = @ \ {o}]
            ELSE stks[u][k]]]

(* ----------------------------- Register ------------------------------- *)
\* a Register that skips a subscriber already in the list
AppendSliceNoDup(arr, len, o) ==
    IF \E j \in 1..len : arr[j] = o
    THEN [arr |-> arr, len |-> len]
    ELSE [arr |-> IF len < Len(arr) THEN [arr EXCEPT ![len + 1] = o]
                  ELSE Pad(Append(SubSeq(arr, 1, len), o), GrowCap(Len(arr))),
          len |-> len + 1]

\* append(b.observers, observer): the array and the length of the result
AppendSlice(arr, len, o) ==
    [arr |-> IF len < Len(arr) THEN [arr EXCEPT ![len + 1] = o]
             ELSE Pad(Append(SubSeq(arr, 1, len), o), GrowCap(Len(arr))),
     len |-> len + 1]

RegisterAppend(t) ==
    /\ HasTop(t, "Register", "body")
    /\ backing' = AppendSlice(backing, olen, Top(t).o).arr
    /\ olen' = AppendSlice(backing, olen, Top(t).o).len
    /\ regList' = Append(regList, Top(t).o)
    /\ stacks' = MarkRegistered(MarkChanged(SetTop(t, [Top(t) EXCEPT !.pc = "unlock"])),
                                Top(t).o)
    /\ UNCHANGED <<rw, budget, extVars>>

(* ---------------------------- Unregister ------------------------------ *)
\* an Unregister that removes the last entry equal to o
LastMatch(arr, len, o) ==
    IF \E j \in 1..len : arr[j] = o
    THEN CHOOSE j \in 1..len : arr[j] = o /\ \A k \in (j + 1)..len : arr[k] # o
    ELSE 0

\* index of the first cell of b.observers equal to o; 0 when there is none
FirstMatch(arr, len, o) ==
    IF \E j \in 1..len : arr[j] = o
    THEN CHOOSE j \in 1..len : arr[j] = o /\ \A k \in 1..(j - 1) : arr[k] # o
    ELSE 0

\* append(b.observers[:i], b.observers[i+1:]...): the cells after i move one
\* place down inside the same array; the last cell keeps its old content
ShiftArray(arr, len, idx) ==
    [j \in 1..Len(arr) |-> IF j >= idx /\ j < len THEN arr[j + 1] ELSE arr[j]]

\* the range loop up to the append on the right-hand side of line 79
UnregisterScan(t) ==
    /\ HasTop(t, "Unregister", "body")
    /\ LET idx == FirstMatch(backing, olen, Top(t).o) IN
         IF idx = 0
         THEN /\ stacks' = SetTop(t, [Top(t) EXCEPT !.pc = "unlock",
                                                    !.entry = Observers])
              /\ UNCHANGED backing
         ELSE /\ backing' = ShiftArray(backing, olen, idx)
              /\ stacks' = SetTop(t, [Top(t) EXCEPT !.pc = "store", !.n = olen - 1,
                                                    !.entry = Observers])
    /\ UNCHANGED <<olen, rw, budget, regList, extVars>>

\* the frame of the Notify whose callback is running Unregister on itself
SelfUnregMark(t, stk) ==
    IF /\ Len(stk) >= 3
       /\ stk[Len(stk) - 1].op = "OnEvent"
       /\ stk[Len(stk) - 1].o = stk[Len(stk)].o
       /\ stk[Len(stk) - 2].selfUnreg = 0
    THEN [stk EXCEPT ![Len(stk) - 2].selfUnreg = stk[Len(stk) - 2].i]
    ELSE stk

\* an Unregister that drops the result of append: the cells are shifted and
\* b.observers keeps its length
UnregisterStoreKeepsLen(t) ==
    /\ HasTop(t, "Unregister", "store")
    /\ olen' = olen
    /\ regList' = RemoveFirst(regList, Top(t).o)
    /\ stacks' = MarkChanged([stacks EXCEPT ![t] =
                     SelfUnregMark(t, [@ EXCEPT ![Depth(t)].pc = "unlock"])])
    /\ UNCHANGED <<backing, rw, budget, extVars>>

\* the assignment to b.observers of line 79, then return
UnregisterStore(t) ==
    /\ HasTop(t, "Unregister", "store")
    /\ olen' = Top(t).n
    /\ regList' = RemoveFirst(regList, Top(t).o)
    /\ stacks' = MarkChanged([stacks EXCEPT ![t] =
                     SelfUnregMark(t, [@ EXCEPT ![Depth(t)].pc = "unlock"])])
    /\ UNCHANGED <<backing, rw, budget, extVars>>

(* ------------------------- Notify, ObserverCount ---------------------- *)
RLock(t) ==
    /\ Depth(t) > 0
    /\ Top(t).op \in {"Notify", "ObserverCount"}
    /\ Top(t).pc = "rlock"
    /\ CanRLock(t)
    /\ rw' = [rw EXCEPT !.readers[t] = @ + 1]
    /\ stacks' = SetTop(t, [Top(t) EXCEPT
                     !.pc = IF Top(t).op = "Notify" THEN "copy" ELSE "read",
                     !.n = IF Top(t).op = "Notify" THEN 0 ELSE olen,
                     !.entry = regList])
    /\ UNCHANGED <<backing, olen, budget, regList, extVars>>

\* a copy that stops one cell short
CopyObserversShort(dst, arr, len) ==
    [j \in 1..Len(dst) |-> IF j < Min(Len(dst), len) THEN arr[j] ELSE dst[j]]

\* copy(dst, b.observers): min(len(dst), len(src)) cells are copied
CopyObservers(dst, arr, len) ==
    [j \in 1..Len(dst) |-> IF j <= Min(Len(dst), len) THEN arr[j] ELSE dst[j]]

\* observers := make([]Observer, len(b.observers)); copy(observers, b.observers)
NotifyCopy(t) ==
    /\ HasTop(t, "Notify", "copy")
    /\ stacks' = SetTop(t, [Top(t) EXCEPT !.pc = "runlock", !.n = olen,
                     !.snap = CopyObservers(Pad(<<>>, olen), backing, olen)])
    /\ UNCHANGED <<backing, olen, rw, budget, regList, extVars>>

\* the read lock kept across the callbacks
ReadersStillHeld(n) == n

\* readers of thread t after the b.mu.RUnlock() of line 90
ReadersAfterRUnlock(n) == n - 1

NotifyRUnlock(t) ==
    /\ HasTop(t, "Notify", "runlock")
    /\ rw' = [rw EXCEPT !.readers[t] = ReadersAfterRUnlock(@)]
    /\ stacks' = SetTop(t, [Top(t) EXCEPT !.pc = "iter"])
    /\ UNCHANGED <<backing, olen, budget, regList, extVars>>

\* a loop over b.observers itself instead of the copy
SnapAtShared(f, j) == backing[j]

\* the element the range loop of line 92 reads at position j
SnapAt(f, j) == f.snap[j]

\* one iteration of the loop: observer.OnEvent(event) is entered
NotifyDeliver(t) ==
    /\ HasTop(t, "Notify", "iter")
    /\ Top(t).i < Len(Top(t).snap)
    /\ LET f == Top(t)
           o == SnapAt(f, f.i + 1)
           g == [f EXCEPT !.i = @ + 1,
                          !.calls = Append(@, [o |-> o, ev |-> f.ev])]
       IN stacks' = [stacks EXCEPT ![t] =
                        Append([@ EXCEPT ![Depth(t)] = g],
                               [Frame("OnEvent", "body", o, f.ev) EXCEPT
                                   !.late = /\ CountIn(o, regList) = 0
                                            /\ \A u \in Threads :
                                                  \A k \in 1..Len(stacks[u]) :
                                                     stacks[u][k].op # "Unregister"])]
    /\ OnEventBody(SnapAt(Top(t), Top(t).i + 1), Top(t).ev)
    /\ UNCHANGED <<backing, olen, rw, budget, regList, decVars, libVars, pipeVars>>

\* the subscriber's callback returns
OnEventReturn(t) ==
    /\ HasTop(t, "OnEvent", "body")
    /\ stacks' = Pop(t)
    /\ UNCHANGED <<backing, olen, rw, budget, regList, extVars>>

\* the loop is over: Notify returns
NotifyReturn(t) ==
    /\ HasTop(t, "Notify", "iter")
    /\ Top(t).i = Len(Top(t).snap)
    /\ stacks' = Pop(t)
    /\ UNCHANGED <<backing, olen, rw, budget, regList, extVars>>

\* return len(b.observers), with the deferred RUnlock
ObserverCountReturn(t) ==
    /\ HasTop(t, "ObserverCount", "read")
    /\ rw' = [rw EXCEPT !.readers[t] = @ - 1]
    /\ stacks' = Pop(t)
    /\ UNCHANGED <<backing, olen, budget, regList, extVars>>

(* --------------------------- specification ---------------------------- *)
Call(t) ==
    \/ CallRegister(t)
    \/ CallUnregister(t)
    \/ CallNotify(t)
    \/ CallObserverCount(t)

\* every step a thread takes inside a call it has started
Step(t) ==
    \/ Lock(t)
    \/ LockAcquire(t)
    \/ RegisterAppend(t)
    \/ UnregisterScan(t)
    \/ UnregisterStore(t)
    \/ Unlock(t)
    \/ RLock(t)
    \/ NotifyCopy(t)
    \/ NotifyRUnlock(t)
    \/ NotifyDeliver(t)
    \/ OnEventReturn(t)
    \/ NotifyReturn(t)
    \/ ObserverCountReturn(t)

Next == \E t \in Threads : Call(t) \/ Step(t)

Spec == Init /\ [][Next]_vars

\* the Go scheduler runs every runnable goroutine again
FairSpec == FairInit /\ [][Next]_vars /\ \A t \in Threads : WF_vars(Step(t))

TypeOK ==
    /\ olen \in 0..Len(backing)
    /\ budget \in 0..MaxCalls
    /\ \A t \in Threads : rw.readers[t] \in 0..MaxCalls
    /\ rw.w \in Threads \cup {NoThread}

(* ------------------------------- codec -------------------------------- *)
\* JPEGEncoder.Encode
JPEGEncode(data) == [bytes |-> <<255, 216, 255, 224>> \o BytesOf(data), err |-> NoErr]

\* PNGEncoder.Encode
PNGEncode(data) ==
    [bytes |-> <<137, 80, 78, 71, 13, 10, 26, 10>> \o BytesOf(data), err |-> NoErr]

\* the header bytes of the two formats
JPEGMagic == <<255, 216, 255, 224>>
PNGMagic == <<137, 80, 78, 71, 13, 10, 26, 10>>

\* a JPEG decoder that takes the header to be three bytes long
JPEGDecodeShortHeader(data) ==
    IF Len(data) < 4 \/ data[1] # 255 \/ data[2] # 216
    THEN [id |-> "", data |-> NilBytes, err |-> "invalid JPEG data"]
    ELSE [id |-> "decoded-jpeg", data |-> SubSeq(data, 4, Len(data)), err |-> NoErr]

\* JPEGDecoder.Decode: the decoded image's id and data, or the error
JPEGDecode(data) ==
    IF Len(data) < 4 \/ data[1] # 255 \/ data[2] # 216
    THEN [id |-> "", data |-> NilBytes, err |-> "invalid JPEG data"]
    ELSE [id |-> "decoded-jpeg", data |-> SubSeq(data, 5, Len(data)), err |-> NoErr]

\* PNGDecoder.Decode
PNGDecode(data) ==
    IF Len(data) < 8 \/ data[1] # 137 \/ data[2] # 80
    THEN [id |-> "", data |-> NilBytes, err |-> "invalid PNG data"]
    ELSE [id |-> "decoded-png", data |-> SubSeq(data, 9, Len(data)), err |-> NoErr]

(* ------------------------------ storage ------------------------------- *)
\* a Save that reports success and stores nothing
MapSaveDropped(st, id, data) == [store |-> st, err |-> NoErr]

\* a Save that stores whatever it is given
MapSaveUnchecked(st, id, data) == [store |-> (id :> data) @@ st, err |-> NoErr]

\* a Save that keeps the entry an id already has
MapSaveKeepsFirst(st, id, data) ==
    IF id = "" THEN [store |-> st, err |-> "id cannot be empty"]
    ELSE IF data = NilBytes THEN [store |-> st, err |-> "data cannot be nil"]
    ELSE [store |-> st @@ (id :> data), err |-> NoErr]

\* MapAdapter.Save
MapSave(st, id, data) ==
    IF id = "" THEN [store |-> st, err |-> "id cannot be empty"]
    ELSE IF data = NilBytes THEN [store |-> st, err |-> "data cannot be nil"]
    ELSE [store |-> (id :> data) @@ st, err |-> NoErr]

\* MapAdapter.Load
MapLoad(st, id) ==
    IF id \in DOMAIN st THEN [data |-> st[id], err |-> NoErr]
    ELSE [data |-> NilBytes, err |-> "not found: " \o id]

\* a Storage whose Save always fails (the collaborator of a short-circuit test)
FailingSave(st, id, data) == [store |-> st, err |-> "storage unavailable"]

\* f.storage.Save through the Storage interface
StorageSave(kind, st, id, data) ==
    IF kind = "map" THEN MapSave(st, id, data) ELSE FailingSave(st, id, data)

(* ------------------------------- facade ------------------------------- *)
PipeThread == "t1"
PhotoTypeLandscape == "landscape"
PhotoTypePortrait == "portrait"
PhotoTypes == {PhotoTypePortrait, "macro"}
FormatPNG == "png"
Formats == {"png", "PNG", "PnG", "jpeg", "gif", ""}
FilterNames == {"sepia", ""}
FilterLists == UNION {[1..k -> FilterNames] : k \in 0..MaxFilters}
Payloads == UNION {[1..k -> {0, 255}] : k \in {MaxData}}

\* strings.ToLower on the format strings used
ToLower(str) ==
    CASE str = "PNG" -> "png"
      [] str = "PnG" -> "png"
      [] str = "JPEG" -> "jpeg"
      [] OTHER -> str

\* Factory.getDescription
getDescription(photoType) ==
    CASE photoType = PhotoTypeLandscape -> "Beautiful landscape photo"
      [] photoType = PhotoTypePortrait -> "Portrait photo"
      [] OTHER -> "Standard photo"

\* Factory.CreatePhoto: the payload is random, the id is the clock reading
CreatePhoto(photoType, data, now) ==
    BasicObj("photo-" \o ToString(now), data, getDescription(photoType), 0, 0)

\* the checks of NewFilterDecorator that end in panic
NewFilterDecoratorPanics(img, filter) == img = NilRef \/ filter = ""

RECURSIVE applyFilters(_, _, _)
\* Facade.applyFilters: every name wraps the image built so far; the heap
\* gains one FilterDecorator per name, until a NewFilterDecorator panics
applyFilters(h, photo, filters) ==
    IF filters = <<>> THEN [heap |-> h, img |-> photo, panic |-> FALSE]
    ELSE IF NewFilterDecoratorPanics(photo, Head(filters))
         THEN [heap |-> h, img |-> photo, panic |-> TRUE]
         ELSE applyFilters(Append(h, DecObj(photo, Head(filters))), Len(h) + 1,
                           Tail(filters))

\* a selection that compares the format as it was written
selectEncoderExact(format) == IF format = FormatPNG THEN "PNG" ELSE "JPEG"

\* Facade.selectEncoder, as the Format() of the encoder chosen
selectEncoder(format) == IF ToLower(format) = FormatPNG THEN "PNG" ELSE "JPEG"

\* Facade.encodePhoto
encodePhoto(h, img, format) ==
    IF selectEncoder(format) = "PNG" THEN PNGEncode(Data(h, img))
    ELSE JPEGEncode(Data(h, img))

InFacade(t, pc) ==
    /\ Depth(t) > 0
    /\ Top(t).op \in {"CaptureAndProcess", "QuickCapture"}
    /\ Top(t).pc = pc

FacadeCall(t, op, photoType, filters, format) ==
    /\ t = PipeThread
    /\ Depth(t) = 0
    /\ budget > 0
    /\ budget' = budget - 1
    /\ stacks' = Push(t, Frame(op, "create", NoObs, NoEvent))
    /\ run' = [NoRun EXCEPT !.op = op, !.photoType = photoType, !.filters = filters,
                            !.format = format, !.statsAtEntry = stats,
                            !.storeAtEntry = store]
    /\ published' = <<>>
    /\ UNCHANGED <<backing, olen, rw, regList, decVars, libVars, obsVars, heap, store,
                   storeKind, clock>>

CallCaptureAndProcess(t) ==
    \E photoType \in PhotoTypes, filters \in FilterLists, format \in Formats :
        FacadeCall(t, "CaptureAndProcess", photoType, filters, format)

CallQuickCapture(t) ==
    \E photoType \in PhotoTypes : FacadeCall(t, "QuickCapture", photoType, <<>>, "")

\* createPhoto, line 61: f.factory.CreatePhoto(photoType)
FacadeCreatePhoto(t) ==
    /\ InFacade(t, "create")
    /\ \E data \in Payloads, now \in {clock, clock + 1} :
          /\ heap' = Append(heap, CreatePhoto(run.photoType, data, now))
          /\ clock' = now
    /\ run' = [run EXCEPT !.photo = Len(heap) + 1]
    /\ stacks' = SetTop(t, [Top(t) EXCEPT !.pc = "notify_created"])
    /\ UNCHANGED <<backing, olen, rw, budget, regList, decVars, libVars, obsVars, store,
                   storeKind, published>>

\* the f.eventBus.Notify(events.NewEvent(...)) of the facade: Notify is entered
FacadeNotify(t, ev, nextpc) ==
    /\ stacks' = [stacks EXCEPT ![t] =
                     Append([@ EXCEPT ![Depth(t)].pc = nextpc],
                            Frame("Notify", "rlock", NoObs, ev))]
    /\ published' = Append(published, ev)
    /\ UNCHANGED <<backing, olen, rw, budget, regList, decVars, libVars, obsVars, heap,
                   store, storeKind, run, clock>>

\* a QuickCapture that runs the rest of the pipeline
AfterCreatePhotoProcessing(op) == "filters"

\* where createPhoto returns to: QuickCapture returns its result (line 57),
\* CaptureAndProcess goes on to applyFilters (line 41)
AfterCreatePhoto(op) == IF op = "QuickCapture" THEN "ret" ELSE "filters"

\* createPhoto, line 62
FacadeNotifyCreated(t) ==
    /\ InFacade(t, "notify_created")
    /\ FacadeNotify(t, NewEvent(EventImageCaptured, run.photo),
                    AfterCreatePhoto(Top(t).op))

\* CaptureAndProcess, line 41
FacadeApplyFilters(t) ==
    /\ InFacade(t, "filters")
    /\ LET r == applyFilters(heap, run.photo, run.filters) IN
          /\ heap' = r.heap
          /\ run' = [run EXCEPT !.processed = IF r.panic THEN NilRef ELSE r.img]
          /\ stacks' = SetTop(t, [Top(t) EXCEPT
                           !.pc = IF r.panic THEN "panicked" ELSE "encode"])
    /\ UNCHANGED <<backing, olen, rw, budget, regList, decVars, libVars, obsVars, store,
                   storeKind, published, clock>>

\* CaptureAndProcess, lines 42-45
FacadeEncode(t) ==
    /\ InFacade(t, "encode")
    /\ LET r == encodePhoto(heap, run.processed, run.format) IN
          IF r.err # NoErr
          THEN /\ run' = [run EXCEPT !.ret = NilBytes, !.err = "encode photo: " \o r.err]
               /\ stacks' = SetTop(t, [Top(t) EXCEPT !.pc = "ret"])
          ELSE /\ run' = [run EXCEPT !.encoded = r.bytes]
               /\ stacks' = SetTop(t, [Top(t) EXCEPT !.pc = "save"])
    /\ UNCHANGED <<backing, olen, rw, budget, regList, decVars, libVars, obsVars, heap,
                   store, storeKind, published, clock>>

\* a facade that goes on to publish although Save failed
AfterSaveIgnoringError(err) == "notify_processed"

\* where CaptureAndProcess goes after Save: line 48 or line 51
AfterSave(err) == IF err # NoErr THEN "ret" ELSE "notify_processed"

\* CaptureAndProcess, lines 47-49
FacadeSave(t) ==
    /\ InFacade(t, "save")
    /\ LET r == StorageSave(storeKind, store, ID(heap, run.processed), run.encoded) IN
          /\ store' = r.store
          /\ run' = IF r.err # NoErr
                    THEN [run EXCEPT !.ret = NilBytes, !.err = "save photo: " \o r.err,
                                     !.saves = @ + 1, !.saveErr = r.err]
                    ELSE [run EXCEPT !.saves = @ + 1]
          /\ stacks' = SetTop(t, [Top(t) EXCEPT !.pc = AfterSave(r.err)])
    /\ UNCHANGED <<backing, olen, rw, budget, regList, decVars, libVars, obsVars, heap,
                   storeKind, published, clock>>

\* CaptureAndProcess, line 51
FacadeNotifyProcessed(t) ==
    /\ InFacade(t, "notify_processed")
    /\ FacadeNotify(t, NewEvent(EventImageProcessed, run.processed), "ret_ok")

\* CaptureAndProcess, line 52: return encoded, nil
FacadeReturnOk(t) ==
    /\ InFacade(t, "ret_ok")
    /\ run' = [run EXCEPT !.ret = run.encoded]
    /\ stacks' = SetTop(t, [Top(t) EXCEPT !.pc = "ret"])
    /\ UNCHANGED <<backing, olen, rw, budget, regList, decVars, libVars, obsVars, heap,
                   store, storeKind, published, clock>>

\* the call is over; the caller drops the images it got
FacadeReturn(t) ==
    /\ InFacade(t, "ret")
    /\ stacks' = Pop(t)
    /\ run' = NoRun
    /\ heap' = <<>>
    /\ UNCHANGED <<backing, olen, rw, budget, regList, decVars, libVars, obsVars, store,
                   storeKind, published, clock>>

\* NewApp: the bus with the three observers registered, the facade over it
PipeInit ==
    /\ backing = Pad(AppObservers, CapAfter(Len(AppObservers)))
    /\ olen = Len(AppObservers)
    /\ regList = AppObservers
    /\ rw = [readers |-> [t \in Threads |-> 0], w |-> NoThread]
    /\ stacks = [t \in Threads |-> <<>>]
    /\ budget = MaxRuns
    /\ storeKind \in {"map", "failing"}
    /\ ExtInit

PipeNext ==
    \/ CallCaptureAndProcess(PipeThread)
    \/ CallQuickCapture(PipeThread)
    \/ FacadeCreatePhoto(PipeThread)
    \/ FacadeNotifyCreated(PipeThread)
    \/ FacadeApplyFilters(PipeThread)
    \/ FacadeEncode(PipeThread)
    \/ FacadeSave(PipeThread)
    \/ FacadeNotifyProcessed(PipeThread)
    \/ FacadeReturnOk(PipeThread)
    \/ FacadeReturn(PipeThread)
    \/ RLock(PipeThread)
    \/ NotifyCopy(PipeThread)
    \/ NotifyRUnlock(PipeThread)
    \/ NotifyDeliver(PipeThread)
    \/ OnEventReturn(PipeThread)
    \/ NotifyReturn(PipeThread)

PipeSpec == PipeInit /\ [][PipeNext]_vars

(* ------------------------- a failing subscriber ------------------------ *)
\* an Observer of the application whose OnEvent may panic
FaultyObs == "faulty"

InsertAt(sq, k, x) == SubSeq(sq, 1, k) \o <<x>> \o SubSeq(sq, k + 1, Len(sq))

\* the registration lists of an application that registers the faulty
\* subscriber somewhere among the three of NewApp
FaultyLists == {InsertAt(AppObservers, k, FaultyObs) : k \in 0..Len(AppObservers)}

\* a bus whose Notify recovers the panic and goes on with the next subscriber
UnwindRecovered(stk) == SubSeq(stk, 1, Len(stk) - 1)

\* a panic nobody recovers: neither Notify nor the facade defers a recover,
\* so no frame of the goroutine runs again
Unwind(stk) == [stk EXCEPT ![Len(stk)].pc = "panicked"]

\* the faulty subscriber's OnEvent panics
OnEventPanic(t) ==
    /\ HasTop(t, "OnEvent", "body")
    /\ Top(t).o = FaultyObs
    /\ stacks' = [stacks EXCEPT ![t] =
                     Unwind([@ EXCEPT ![Depth(t) - 1].raised =
                                          stacks[t][Depth(t) - 1].i])]
    /\ UNCHANGED <<backing, olen, rw, budget, regList, extVars>>

FaultInit ==
    /\ \E l \in FaultyLists :
          /\ backing = Pad(l, CapAfter(Len(l)))
          /\ olen = Len(l)
          /\ regList = l
    /\ rw = [readers |-> [t \in Threads |-> 0], w |-> NoThread]
    /\ stacks = [t \in Threads |-> <<>>]
    /\ budget = MaxRuns
    /\ storeKind = "map"
    /\ ExtInit

FaultNext ==
    \/ PipeNext
    \/ OnEventPanic(PipeThread)

FaultSpec == FaultInit /\ [][FaultNext]_vars

(* ------------------------------ decorator ----------------------------- *)
DecNames == {"grayscale", "sepia"}
DecNameLists == UNION {[1..k -> DecNames] : k \in 0..MaxDecs}

\* cap() of the []string slice on array farr
CapOf(A, farr) == IF farr = 0 THEN 0 ELSE Len(A[farr])

\* the elements of the []string slice (farr, flen)
Contents(A, farr, flen) ==
    IF farr = 0 THEN <<>> ELSE [j \in 1..flen |-> A[farr][j]]

PadStr(sq, n) == [j \in 1..n |-> IF j <= Len(sq) THEN sq[j] ELSE ""]

\* a decorator that puts its filter in front of the history
AppendFilterFront(A, farr, flen, x) ==
    [arrays |-> Append(A, PadStr(<<x>> \o Contents(A, farr, flen),
                                 GrowCap(CapOf(A, farr)) + flen)),
     farr |-> Len(A) + 1, flen |-> flen + 1]

\* append(meta.Filters, d.filter): with room left the cell after the slice is
\* written in the array the slice already has; without room the elements move
\* to a new array
AppendFilter(A, farr, flen, x) ==
    IF flen < CapOf(A, farr)
    THEN [arrays |-> [A EXCEPT ![farr] =
                        [j \in 1..Len(@) |-> IF j = flen + 1 THEN x ELSE @[j]]],
          farr |-> farr, flen |-> flen + 1]
    ELSE [arrays |-> Append(A, PadStr(Append(Contents(A, farr, flen), x),
                                      GrowCap(CapOf(A, farr)))),
          farr |-> Len(A) + 1, flen |-> flen + 1]

RECURSIVE Metadata(_, _, _)
\* Image.Metadata, as the Filters slice of the result and the arrays after the
\* call: BasicImage returns its stored slice, FilterDecorator appends its
\* filter to what the wrapped image returns
Metadata(h, A, r) ==
    IF h[r].kind = "basic"
    THEN [arrays |-> A, farr |-> h[r].farr, flen |-> h[r].flen]
    ELSE LET m == Metadata(h, A, h[r].wrapped)
         IN AppendFilter(m.arrays, m.farr, m.flen, h[r].filter)

\* the decorators know nothing of the bus, the storage or the facade
DecCall ==
    UNCHANGED <<busVars, libVars, obsVars, store, storeKind, run, published, clock>>

\* image.NewFilterDecorator(img, filter) on an image the client holds
DecNewFilterDecorator ==
    /\ DecCall
    /\ Len(heap) < 1 + MaxDecs
    /\ \E r \in 1..Len(heap), name \in DecNames :
          /\ ~NewFilterDecoratorPanics(r, name)
          /\ heap' = Append(heap, DecObj(r, name))
    /\ UNCHANGED <<arrays, held>>

\* the fold of Facade.applyFilters over the base image
DecApplyFilters ==
    /\ DecCall
    /\ \E names \in DecNameLists :
          /\ names # <<>>
          /\ Len(heap) + Len(names) <= 1 + MaxDecs
          /\ heap' = applyFilters(heap, 1, names).heap
    /\ UNCHANGED <<arrays, held>>

\* img.Metadata(): the client keeps the result
DecMetadata ==
    /\ DecCall
    /\ Len(held) < MaxHeld
    /\ \E r \in 1..Len(heap) :
          LET m == Metadata(heap, arrays, r) IN
          /\ arrays' = m.arrays
          /\ held' = Append(held, [view |-> r, farr |-> m.farr, flen |-> m.flen,
                                   seen |-> Contents(m.arrays, m.farr, m.flen)])
    /\ UNCHANGED heap

\* img.SetMetadata(meta) with a result kept from Metadata(); every view
\* hands it to the BasicImage
DecSetMetadataHeld ==
    /\ DecCall
    /\ \E k \in 1..Len(held) :
          heap' = [heap EXCEPT ![1].farr = held[k].farr, ![1].flen = held[k].flen]
    /\ UNCHANGED <<arrays, held>>

\* the payload of the client's BasicImage
ClientPayload == [j \in 1..MaxData |-> 255]

\* a client holds one BasicImage: a photo of the factory, or the result of
\* image.NewBasicImage(id, data, ImageMetadata{Filters: make([]string, 0, c)})
DecInit ==
    /\ backing = <<>>
    /\ olen = 0
    /\ regList = <<>>
    /\ rw = [readers |-> [t \in Threads |-> 0], w |-> NoThread]
    /\ stacks = [t \in Threads |-> <<>>]
    /\ budget = 0
    /\ storeKind = "map"
    /\ held = <<>>
    /\ store = <<>>
    /\ run = NoRun
    /\ published = <<>>
    /\ stats = [ty \in EventTypes |-> 0]
    /\ thumbs = <<>>
    /\ clock = 0
    /\ LibInit
    /\ \E c \in 0..MaxSpare :
          /\ arrays = IF c = 0 THEN <<>> ELSE <<PadStr(<<>>, c)>>
          /\ heap = <<[CreatePhoto(PhotoTypePortrait, ClientPayload, 0)
                        EXCEPT !.farr = IF c = 0 THEN 0 ELSE 1]>>

DecNext ==
    \/ DecNewFilterDecorator
    \/ DecApplyFilters
    \/ DecMetadata
    \/ DecSetMetadataHeld

DecSpec == DecInit /\ [][DecNext]_vars

(* ------------------------------ gallery ------------------------------- *)
\* what the sorters read of an image: ID(), Metadata().Rating and
\* Metadata().CapturedAt
GalleryImages == [id : {"a", "b"}, rating : {1, 2}, capturedAt : {1, 2}]

\* NewSortByDate, NewSortByRating, NewSortByID
Sorters == [kind : {"date", "rating", "id"}, ascending : BOOLEAN]

\* the less closure each Sort method gives to sort.Slice
Less(srt, x, y) ==
    CASE srt.kind = "date" ->
            IF srt.ascending THEN x.capturedAt < y.capturedAt
            ELSE x.capturedAt > y.capturedAt
      [] srt.kind = "rating" ->
            IF srt.ascending THEN x.rating < y.rating ELSE x.rating > y.rating
      [] srt.kind = "id" ->
            IF srt.ascending THEN x.id = "a" /\ y.id = "b"
            ELSE x.id = "b" /\ y.id = "a"

IndexOrders(n) == {p \in [1..n -> 1..n] : \A i, j \in 1..n : p[i] = p[j] => i = j}

Ordered(q, srt) == \A i, j \in 1..Len(q) : i < j => ~Less(srt, q[j], q[i])

\* sort.SliceStable: the one ordering that keeps elements with equal keys in
\* their input order
SliceStable(sq, srt) ==
    LET p == CHOOSE p \in IndexOrders(Len(sq)) :
                 \A i, j \in 1..Len(sq) : i < j =>
                     \/ Less(srt, sq[p[i]], sq[p[j]])
                     \/ (~Less(srt, sq[p[j]], sq[p[i]]) /\ p[i] < p[j])
    IN {[i \in 1..Len(sq) |-> sq[p[i]]]}

\* sort.Slice(sorted, less) on a copy of the argument: the elements in an
\* order that agrees with less; the package makes no promise about the order
\* of elements that less does not separate
Slice(sq, srt) ==
    {q \in {[i \in 1..Len(sq) |-> sq[p[i]]] : p \in IndexOrders(Len(sq))} :
        Ordered(q, srt)}

\* a Sort that gives the argument itself to sort.Slice and returns it
SorterSortInPlace(srt, input) ==
    {[input |-> q, out |-> q, alias |-> TRUE] : q \in Slice(input, srt)}

\* SortByDate.Sort, SortByRating.Sort, SortByID.Sort: make a slice of the
\* same length, copy the argument into it, sort.Slice the copy and return it;
\* input is what the argument holds when Sort returns
SorterSort(srt, input) ==
    LET sorted == [j \in 1..Len(input) |-> input[j]]
    IN {[input |-> input, out |-> q, alias |-> FALSE] : q \in Slice(sorted, srt)}

\* the gallery has no part in the bus, the pipeline or the decorators
LibCall == UNCHANGED <<busVars, decVars, obsVars, heap, storeKind, run, published, clock>>

\* Gallery.AddImage
AddImage ==
    /\ LibCall
    /\ Len(images) < MaxImages
    /\ \E img \in GalleryImages : images' = Append(images, img)
    /\ last' = [NoCall EXCEPT !.op = "AddImage"]
    /\ UNCHANGED <<sorter, store>>

\* Gallery.SetSorter
SetSorter ==
    /\ LibCall
    /\ \E srt \in Sorters : sorter' = srt
    /\ last' = [NoCall EXCEPT !.op = "SetSorter"]
    /\ UNCHANGED <<images, store>>

\* Gallery.Sort: with a sorter set, the images are replaced by what it returns
GallerySort ==
    /\ LibCall
    /\ IF sorter = NoSorter
       THEN /\ UNCHANGED images
            /\ last' = [NoCall EXCEPT !.op = "Sort", !.before = images,
                                      !.sorter = sorter, !.after = images,
                                      !.alias = TRUE]
       ELSE \E r \in SorterSort(sorter, images) :
               /\ images' = r.out
               /\ last' = [NoCall EXCEPT !.op = "Sort", !.before = images,
                                         !.sorter = sorter, !.after = r.input,
                                         !.alias = r.alias]
    /\ UNCHANGED <<sorter, store>>

\* a program that uses one of the library packages alone: no subscriber, no
\* facade call, nothing stored
ClientInit ==
    /\ backing = <<>>
    /\ olen = 0
    /\ regList = <<>>
    /\ rw = [readers |-> [t \in Threads |-> 0], w |-> NoThread]
    /\ stacks = [t \in Threads |-> <<>>]
    /\ budget = 0
    /\ storeKind = "map"
    /\ ExtInit

\* NewGallery
GalleryInit == ClientInit

GalleryNext ==
    \/ AddImage
    \/ SetSorter
    \/ GallerySort

GallerySpec == GalleryInit /\ [][GalleryNext]_vars

(* ---------------------------- codec client ---------------------------- *)
\* byte strings a decoder is given: an encoder's output for a short payload,
\* cut at any length, with at most one byte replaced by zero
WirePayloads == UNION {[1..k -> {0, 255}] : k \in 0..MaxWirePayload}

WireInputs ==
    UNION {UNION {{[j \in 1..k |-> IF j = z THEN 0 ELSE (magic \o pl)[j]]
                    : z \in 0..k}
                  : k \in 0..Len(magic \o pl)}
           : magic \in {JPEGMagic, PNGMagic}, pl \in WirePayloads}

\* the codec has no part in the bus, the pipeline, the gallery or the store
CodecCall ==
    UNCHANGED <<busVars, decVars, obsVars, pipeVars, images, sorter>>

\* NewJPEGDecoder().Decode(data)
DecodeJPEG ==
    /\ CodecCall
    /\ \E data \in WireInputs :
          LET r == JPEGDecode(data) IN
          last' = [NoCall EXCEPT !.op = "Decode", !.id = "JPEG", !.arg = data,
                                 !.out = r.data, !.outId = r.id, !.err = r.err]

\* NewPNGDecoder().Decode(data)
DecodePNG ==
    /\ CodecCall
    /\ \E data \in WireInputs :
          LET r == PNGDecode(data) IN
          last' = [NoCall EXCEPT !.op = "Decode", !.id = "PNG", !.arg = data,
                                 !.out = r.data, !.outId = r.id, !.err = r.err]

\* payloads of the images a client encodes: the nil slice, the empty slice and
\* short byte strings
RoundTripPayloads ==
    {NilBytes} \cup UNION {[1..k -> {0, 255}] : k \in 0..(MaxWirePayload + 1)}

\* enc.Encode(img) followed by NewJPEGDecoder().Decode of the bytes; Encode
\* only reads img.Data(), which is read again after the call
RoundTripJPEG ==
    /\ CodecCall
    /\ \E payload \in RoundTripPayloads :
          LET e == JPEGEncode(payload)
              r == JPEGDecode(e.bytes)
          IN last' = [NoCall EXCEPT !.op = "RoundTrip", !.id = "JPEG",
                                    !.arg = payload, !.before = e.bytes,
                                    !.out = r.data, !.outId = r.id,
                                    !.err = IF e.err # NoErr THEN e.err ELSE r.err,
                                    !.after = payload]

\* the same with NewPNGEncoder and NewPNGDecoder
RoundTripPNG ==
    /\ CodecCall
    /\ \E payload \in RoundTripPayloads :
          LET e == PNGEncode(payload)
              r == PNGDecode(e.bytes)
          IN last' = [NoCall EXCEPT !.op = "RoundTrip", !.id = "PNG",
                                    !.arg = payload, !.before = e.bytes,
                                    !.out = r.data, !.outId = r.id,
                                    !.err = IF e.err # NoErr THEN e.err ELSE r.err,
                                    !.after = payload]

CodecInit == ClientInit

CodecNext ==
    \/ DecodeJPEG
    \/ DecodePNG
    \/ RoundTripJPEG
    \/ RoundTripPNG

CodecSpec == CodecInit /\ [][CodecNext]_vars

(* --------------------------- storage client --------------------------- *)
\* ids and byte slices a client gives to the adapter; NilBytes is the nil slice
ClientIds == {"", "a", "b"}
ClientData == {NilBytes, <<>>, <<7>>, <<7, 7>>}

\* the adapter has no part in the bus, the pipeline, the gallery or the codec
StoreCall ==
    UNCHANGED <<busVars, decVars, obsVars, heap, storeKind, run, published, clock,
                images, sorter>>

\* m.Save(id, data)
ClientSave ==
    /\ StoreCall
    /\ \E id \in ClientIds, data \in ClientData :
          LET r == MapSave(store, id, data) IN
          /\ store' = r.store
          /\ last' = [NoCall EXCEPT !.op = "Save", !.id = id, !.arg = data,
                                    !.err = r.err, !.before = store]

\* m.Load(id)
ClientLoad ==
    /\ StoreCall
    /\ \E id \in ClientIds :
          LET r == MapLoad(store, id) IN
          /\ last' = [NoCall EXCEPT !.op = "Load", !.id = id, !.out = r.data,
                                    !.err = r.err, !.before = store]
    /\ UNCHANGED store

\* NewMapAdapter
StoreInit == ClientInit

StoreNext ==
    \/ ClientSave
    \/ ClientLoad

StoreSpec == StoreInit /\ [][StoreNext]_vars

(* ------------------------------- claims ------------------------------- *)
NotifyFrames ==
    UNION {{stacks[t][k] : k \in {j \in 1..Depth(t) : stacks[t][j].op = "Notify"}}
           : t \in Threads}

CalledObs(f) == [j \in 1..Len(f.calls) |-> f.calls[j].o]
LoopOver(f) == f.pc = "iter" /\ f.i = Len(f.snap)

\* C1: the OnEvent invocations of one Notify are, in order, the registration
\* list as it stood when Notify held the read lock: at every moment of the
\* delivery the invocations made are a prefix of that list, the loop runs over
\* exactly that many elements, and no Register or Unregister during the
\* delivery changes this.
C1_SnapshotDelivery ==
    \A f \in NotifyFrames :
        f.pc = "iter" =>
            /\ Len(f.snap) = Len(f.entry)
            /\ f.i <= Len(f.entry)
            /\ CalledObs(f) = SubSeq(f.entry, 1, f.i)

\* a Notify whose loop is over, over at least two subscribers, during whose
\* delivery another thread's Unregister removed a subscriber
C1_Witness ==
    \E t \in Threads, u \in Threads :
        /\ t # u
        /\ HasTop(t, "Notify", "iter")
        /\ LoopOver(Top(t)) /\ Top(t).changed /\ Len(Top(t).entry) >= 2
        /\ HasTop(u, "Unregister", "unlock") /\ Depth(u) = 1
        /\ regList # Top(t).entry

\* C2: when a subscriber unregisters itself inside its own OnEvent, the Notify
\* in progress still invokes every subscriber of the list at entry in the
\* original order, those after the unregistered one included.
C2_SelfUnregisterKeepsDelivery ==
    \A f \in NotifyFrames :
        f.selfUnreg > 0 =>
            /\ Len(f.snap) = Len(f.entry)
            /\ \A j \in 1..f.i : f.calls[j].o = f.entry[j]
            /\ (LoopOver(f) => \A j \in (f.selfUnreg + 1)..Len(f.entry) :
                                   j <= Len(f.calls) /\ f.calls[j].o = f.entry[j])

\* the first of three subscribers unregistered itself and the loop is over
C2_Witness ==
    \E f \in NotifyFrames :
        /\ f.selfUnreg = 1 /\ LoopOver(f) /\ Len(f.entry) = 3
        /\ f.entry[2] # f.entry[3]

\* C3: no call is stuck behind the bus lock: every call a thread starts,
\* from the top level or from inside OnEvent, returns.
C3_EveryCallReturns == \A t \in Threads : (Depth(t) > 0) ~> (Depth(t) = 0)

\* a subscriber inside OnEvent holds the write lock in its own Register
C3_Witness ==
    \E t \in Threads :
        /\ Depth(t) = 3
        /\ stacks[t][1].op = "Notify" /\ stacks[t][2].op = "OnEvent"
        /\ HasTop(t, "Register", "unlock")
        /\ rw.readers[t] = 0

\* C10: one Notify invokes every subscriber as many times as it is registered
\* (once for a subscriber registered once), each time with the event given.
C10_EachRegistrationInvokedOnce ==
    \A f \in NotifyFrames :
        LoopOver(f) =>
            /\ \A s \in Subs : CountIn(s, CalledObs(f)) = CountIn(s, f.entry)
            /\ \A j \in 1..Len(f.calls) : f.calls[j].ev = f.ev

\* the loop is over on a list with one subscriber twice and another once
C10_Witness ==
    \E f \in NotifyFrames :
        /\ LoopOver(f) /\ Len(f.calls) = 3 /\ ~f.changed
        /\ \E s \in Subs, r \in Subs :
              s # r /\ CountIn(s, f.entry) = 2 /\ CountIn(r, f.entry) = 1

NotifyFramesOf(t) ==
    {stacks[t][k] : k \in {j \in 1..Depth(t) : stacks[t][j].op = "Notify"}}

\* the invocations a Notify has made of subscriber s with event ev
Received(f, s, ev) ==
    Cardinality({j \in 1..Len(f.calls) : f.calls[j] = [o |-> s, ev |-> ev]})

\* C21: while two threads deliver their events at the same time and no
\* registration changes, each thread has invoked, with its own event, the
\* subscribers of the registration list in order up to where its loop is;
\* when both loops are over every subscriber has received each of the two
\* events as many times as it is registered (once when registered once).
C21_ConcurrentNotifyDeliversBoth ==
    \A f1 \in NotifyFramesOf("t1"), f2 \in NotifyFramesOf("t2") :
        (f1.pc = "iter" /\ f2.pc = "iter" /\ ~f1.changed /\ ~f2.changed) =>
            /\ f1.ev # f2.ev
            /\ f1.calls = [j \in 1..f1.i |-> [o |-> regList[j], ev |-> f1.ev]]
            /\ f2.calls = [j \in 1..f2.i |-> [o |-> regList[j], ev |-> f2.ev]]
            /\ (LoopOver(f1) /\ LoopOver(f2)) =>
                   \A s \in Subs, ev \in {f1.ev, f2.ev} :
                       Received(f1, s, ev) + Received(f2, s, ev) = CountIn(s, regList)

\* the two threads are inside OnEvent of the same subscriber at the same
\* time, each with its own event, on an unchanged list of two subscribers
C21_Witness ==
    /\ HasTop("t1", "OnEvent", "body") /\ HasTop("t2", "OnEvent", "body")
    /\ Depth("t1") = 2 /\ Depth("t2") = 2
    /\ Top("t1").o = Top("t2").o
    /\ Top("t1").ev # Top("t2").ev
    /\ ~stacks["t1"][1].changed /\ ~stacks["t2"][1].changed
    /\ Len(regList) = 2 /\ regList[1] # regList[2]

\* C22: a Notify invokes no subscriber that was out of the registration list
\* when the Notify was called (never registered, or its Unregister done) and
\* has not been registered again since.
C22_NoDeliveryAfterUnregister ==
    \A f \in NotifyFrames :
        \A j \in 1..Len(f.calls) : f.calls[j].o \notin f.absent

\* a subscriber registered once is inside OnEvent, entered after its
\* Unregister had returned, for a Notify that copied the list before
C22_Witness ==
    \E t \in Threads :
        /\ HasTop(t, "OnEvent", "body")
        /\ Top(t).late
        /\ Depth(t) = 2
        /\ CountIn(Top(t).o, stacks[t][1].entry) = 1
        /\ CountIn(Top(t).o, regList) = 0

(* -------------------------- claims: pipeline -------------------------- *)
Returning(op) == InFacade(PipeThread, "ret") /\ run.op = op
Succeeded == Returning("CaptureAndProcess") /\ run.err = NoErr
TypesPublished == [j \in 1..Len(published) |-> published[j].type]

\* C4: when the storage's Save fails, CaptureAndProcess returns nil bytes and
\* an error of the save stage, has published no ImageProcessed event, and the
\* ImageCaptured event it published stays published and counted.
C4_SaveFailureShortCircuits ==
    (run.op = "CaptureAndProcess" /\ run.saveErr # NoErr) =>
        /\ InFacade(PipeThread, "ret")
        /\ run.ret = NilBytes
        /\ run.err = "save photo: " \o run.saveErr
        /\ published = <<NewEvent(EventImageCaptured, run.photo)>>
        /\ stats[EventImageProcessed] = run.statsAtEntry[EventImageProcessed]
        /\ stats[EventImageCaptured] = run.statsAtEntry[EventImageCaptured] + 1

\* a call with one filter is returning the error of a failed Save
C4_Witness ==
    /\ Returning("CaptureAndProcess")
    /\ run.saveErr # NoErr /\ storeKind = "failing"
    /\ Len(run.filters) = 1

\* C5: a successful CaptureAndProcess has published exactly ImageCaptured on
\* the base image and then ImageProcessed on the wrapped image, both with the
\* same ID, and the statistics observer has counted one more of each.
C5_TwoEventsInOrder ==
    Succeeded =>
        /\ published = <<NewEvent(EventImageCaptured, run.photo),
                         NewEvent(EventImageProcessed, run.processed)>>
        /\ heap[run.photo].kind = "basic"
        /\ BaseOf(heap, run.processed) = run.photo
        /\ ID(heap, published[1].image) = ID(heap, published[2].image)
        /\ \A ty \in EventTypes :
              stats[ty] = run.statsAtEntry[ty]
                          + (IF ty \in {EventImageCaptured, EventImageProcessed}
                             THEN 1 ELSE 0)

\* a successful call whose processed image is a decorator around the photo
C5_Witness ==
    /\ Succeeded
    /\ run.processed # run.photo
    /\ stats[EventImageProcessed] = 1

\* C6: with the map storage, Load of the image's ID returns the bytes
\* CaptureAndProcess returns, and the entry is already there whenever the
\* ImageProcessed event is being delivered.
C6_StoredBeforeProcessed ==
    storeKind = "map" =>
        /\ Succeeded =>
              MapLoad(store, ID(heap, run.processed)) = [data |-> run.ret, err |-> NoErr]
        /\ \A k \in 1..Depth(PipeThread) :
              LET f == stacks[PipeThread][k] IN
              (f.op \in {"Notify", "OnEvent"} /\ f.ev.type = EventImageProcessed) =>
                  MapLoad(store, ID(heap, f.ev.image)) =
                      [data |-> run.encoded, err |-> NoErr]

\* a subscriber is inside OnEvent for the ImageProcessed event
C6_Witness ==
    /\ storeKind = "map"
    /\ HasTop(PipeThread, "OnEvent", "body")
    /\ Top(PipeThread).ev.type = EventImageProcessed
    /\ Top(PipeThread).o = "stats"

(* ------------------------ claims: registration ------------------------ *)
UnregisterFrames ==
    UNION {{stacks[t][k] : k \in {j \in 1..Depth(t) : stacks[t][j].op = "Unregister"}}
           : t \in Threads}

ObserverCountFrames ==
    UNION {{stacks[t][k] : k \in {j \in 1..Depth(t) : stacks[t][j].op = "ObserverCount"}}
           : t \in Threads}

\* C11: when Unregister(o) is about to return, b.observers is the list its
\* loop started from without the first entry equal to o: every other entry,
\* later duplicates of o included, is kept in its order, and a list without o
\* is left as it was; Unregister returns normally either way.
C11_RemovesFirstMatchOnly ==
    \A f \in UnregisterFrames :
        f.pc = "unlock" => Observers = RemoveFirst(f.entry, f.o)

\* an Unregister(o) about to return whose list held o, another subscriber and
\* o again: the other subscriber and the second o are what is left
C11_Witness ==
    /\ \E f \in UnregisterFrames :
          /\ f.pc = "unlock"
          /\ Len(f.entry) = 3
          /\ f.entry[1] = f.o /\ f.entry[2] # f.o /\ f.entry[3] = f.o
          /\ Observers = <<f.entry[2], f.entry[3]>>

\* C12: whenever no Unregister is between its shift and its assignment,
\* b.observers is the sequence of the Register calls done so far without the
\* entries the Unregister calls that found a match removed, and an
\* ObserverCount holding the read lock returns its length: concurrent
\* mutation loses and duplicates nothing.
C12_NoRegistrationLostOrDuplicated ==
    /\ (\A f \in UnregisterFrames : f.pc # "store") => Observers = regList
    /\ \A f \in ObserverCountFrames : f.pc = "read" => f.n = Len(regList)

\* one thread is about to return from a Register or Unregister that changed
\* the list while the other thread waits for the lock with a call of its own,
\* every call of the budget having been started
C12_Witness ==
    \E t, u \in Threads :
        /\ t # u
        /\ Depth(t) > 0 /\ Top(t).op \in {"Register", "Unregister"}
        /\ Top(t).pc = "unlock"
        /\ Depth(u) > 0 /\ Top(u).op \in {"Register", "Unregister"}
        /\ Top(u).pc = "lock"
        /\ budget = 0

\* C17: the bytes a successful CaptureAndProcess returns are the PNG header
\* followed by the photo's payload when the format is "png" in any letter
\* case, and the JPEG header followed by the payload for every other format,
\* the empty one included.
C17_EncoderByFormat ==
    Succeeded =>
        run.ret = (IF run.format \in {"png", "PNG", "PnG"} THEN PNGMagic ELSE JPEGMagic)
                  \o heap[run.photo].data

\* a successful call whose format is "png" in mixed case
C17_Witness ==
    /\ Succeeded
    /\ run.format = "PnG"
    /\ Len(heap[run.photo].data) > 0

\* C18: a QuickCapture that returns has published one ImageCaptured event
\* on the image it returns and nothing else, returns a BasicImage with no
\* filter in its history and no error, and has not called Save: the store is
\* what it was when the call began.
C18_QuickCaptureOnlyCreates ==
    Returning("QuickCapture") =>
        /\ published = <<NewEvent(EventImageCaptured, run.photo)>>
        /\ heap[run.photo].kind = "basic"
        /\ Contents(Metadata(heap, arrays, run.photo).arrays,
                    Metadata(heap, arrays, run.photo).farr,
                    Metadata(heap, arrays, run.photo).flen) = <<>>
        /\ run.err = NoErr
        /\ run.saves = 0
        /\ store = run.storeAtEntry
        /\ stats[EventImageProcessed] = run.statsAtEntry[EventImageProcessed]
        /\ stats[EventImageCaptured] = run.statsAtEntry[EventImageCaptured] + 1

\* a QuickCapture is returning after all three subscribers got its event
C18_Witness ==
    /\ Returning("QuickCapture")
    /\ stats[EventImageCaptured] = run.statsAtEntry[EventImageCaptured] + 1
    /\ ID(heap, run.photo) \in DOMAIN thumbs

\* C19: once a subscriber's OnEvent has panicked, the Notify that called it
\* never goes on: the goroutine stays in the panic, the subscribers after the
\* failing one in Notify's copy are not invoked for the event, and when the
\* event is the ImageCaptured of a CaptureAndProcess nothing has been wrapped,
\* encoded or saved and no ImageProcessed event is published.
C19_SubscriberPanicPropagates ==
    \A f \in NotifyFrames :
        f.raised > 0 =>
            /\ Top(PipeThread).op = "OnEvent" /\ Top(PipeThread).pc = "panicked"
            /\ f.pc = "iter" /\ f.i = f.raised
            /\ CalledObs(f) = SubSeq(f.snap, 1, f.raised)
            /\ (\E j \in (f.raised + 1)..Len(f.snap) : f.snap[j] = "stats") =>
                   stats[f.ev.type] = run.statsAtEntry[f.ev.type]
            /\ (run.op = "CaptureAndProcess" /\ f.ev.type = EventImageCaptured) =>
                   /\ published = <<NewEvent(EventImageCaptured, run.photo)>>
                   /\ run.processed = NilRef
                   /\ run.encoded = NilBytes
                   /\ run.saves = 0
                   /\ store = run.storeAtEntry

\* the faulty subscriber, registered between the logger and the thumbnail
\* generator, has panicked on the ImageCaptured event of a CaptureAndProcess
C19_Witness ==
    /\ run.op = "CaptureAndProcess"
    /\ \E f \in NotifyFrames :
          /\ f.raised = 2
          /\ f.ev.type = EventImageCaptured
          /\ f.snap = <<"logger", FaultyObs, "thumb", "stats">>

\* C20: a CaptureAndProcess never ends in the panic of NewFilterDecorator,
\* whatever names its filter list holds, and when it returns it returns
\* either bytes and no error or nil bytes and the error of a stage.
C20_RunReturnsBytesOrError ==
    run.op = "CaptureAndProcess" =>
        /\ ~InFacade(PipeThread, "panicked")
        /\ Returning("CaptureAndProcess") =>
               \/ (run.err = NoErr /\ run.ret # NilBytes)
               \/ (run.err # NoErr /\ run.ret = NilBytes)

(* --------------------------- claims: gallery -------------------------- *)
\* C14: what Gallery.Sort leaves in the gallery, for every strategy and
\* direction, is the images it had before in the order of the key, images
\* with equal keys staying in the order they had before.
C14_SortIsStable ==
    (last.op = "Sort" /\ last.sorter # NoSorter) =>
        /\ Ordered(images, last.sorter)
        /\ images \in SliceStable(last.before, last.sorter)

(* ---------------------------- claims: codec --------------------------- *)
MagicOf(format) == IF format = "PNG" THEN PNGMagic ELSE JPEGMagic

HasPrefix(data, magic) ==
    Len(data) >= Len(magic) /\ SubSeq(data, 1, Len(magic)) = magic

\* C23: when a sorter's Sort returns, the slice it was given holds the same
\* elements in the same order as before, and the result is a separate slice of
\* the same length; Gallery.Sort with no sorter leaves the images as they were.
C23_SortLeavesInputAlone ==
    last.op = "Sort" =>
        IF last.sorter = NoSorter
        THEN images = last.before
        ELSE /\ last.after = last.before
             /\ ~last.alias
             /\ Len(images) = Len(last.before)

\* a sorter has returned a full gallery in another order than it was given,
\* and the slice it was given still reads as before
C23_Witness ==
    /\ last.op = "Sort"
    /\ last.sorter # NoSorter
    /\ Len(last.before) = MaxImages
    /\ images # last.before
    /\ last.after = last.before

\* C24: decoding what the matching encoder produced succeeds and gives an
\* image whose payload has the bytes of the original payload, the empty and
\* the nil payload included, and the original payload reads the same after the
\* encoding as before.
C24_DecodeInvertsEncode ==
    last.op = "RoundTrip" =>
        /\ last.err = NoErr
        /\ last.out # NilBytes
        /\ BytesOf(last.out) = BytesOf(last.arg)
        /\ last.after = last.arg
        /\ last.outId = (IF last.id = "JPEG" THEN "decoded-jpeg" ELSE "decoded-png")

\* an image with an empty payload went through the JPEG encoder and decoder
\* and came back empty
C24_Witness ==
    /\ last.op = "RoundTrip"
    /\ last.id = "JPEG"
    /\ last.arg = <<>>
    /\ last.before = JPEGMagic
    /\ last.out = <<>>

\* C15: a decoder fails exactly on the inputs that are shorter than its header
\* or do not begin with all the header bytes of its format, and succeeds
\* exactly on the inputs that begin with them.
C15_DecodeChecksFullMagic ==
    last.op = "Decode" =>
        (last.err = NoErr <=> HasPrefix(last.arg, MagicOf(last.id)))

(* --------------------------- claims: storage -------------------------- *)
\* errors.Is(err, ErrNotFound) for the errors Load builds with "%w: %s"
IsErrNotFound(err) == \E id \in ClientIds : err = "not found: " \o id

\* C16: a Save with an empty id or nil data returns an error and leaves the
\* map as it was; a Load of an id that is not in the map returns nil data and
\* an error that wraps ErrNotFound; no Load changes the map.
C16_SaveLoadErrors ==
    /\ (last.op = "Save" /\ (last.id = "" \/ last.arg = NilBytes)) =>
            (last.err # NoErr /\ store = last.before)
    /\ last.op = "Load" =>
            /\ store = last.before
            /\ last.id \notin DOMAIN last.before =>
                   (IsErrNotFound(last.err) /\ last.out = NilBytes)

\* a Save of nil data under an id that already holds bytes has just failed
C16_Witness ==
    /\ last.op = "Save"
    /\ last.arg = NilBytes
    /\ last.id \in DOMAIN store
    /\ store[last.id] = <<7>>

\* C25: when a Save has succeeded, Load of its id gives the data just saved,
\* whatever the id held before, and Load of every other id gives what it gave
\* before the Save; a Load gives what the map holds for its id and leaves the
\* map alone, so each id reads as its most recent successful Save.
C25_LoadReturnsLatestSave ==
    /\ (last.op = "Save" /\ last.err = NoErr) =>
            /\ MapLoad(store, last.id) = [data |-> last.arg, err |-> NoErr]
            /\ \A id \in ClientIds \ {last.id} :
                   MapLoad(store, id) = MapLoad(last.before, id)
    /\ (last.op = "Save" /\ last.err # NoErr) =>
            \A id \in ClientIds : MapLoad(store, id) = MapLoad(last.before, id)
    /\ (last.op = "Load" /\ last.id \in DOMAIN last.before) =>
            /\ last.err = NoErr
            /\ last.out = last.before[last.id]
            /\ \A id \in ClientIds : MapLoad(store, id) = MapLoad(last.before, id)

\* a Save has replaced the bytes its id held, while another id holds bytes too
C25_Witness ==
    /\ last.op = "Save"
    /\ last.err = NoErr
    /\ last.id \in DOMAIN last.before
    /\ last.before[last.id] # last.arg
    /\ store[last.id] = last.arg
    /\ \E id \in DOMAIN store \ {last.id} : store[id] # last.arg

(* -------------------------- claims: decorator ------------------------- *)
\* C8: a Metadata() result a client holds keeps the history it had when it was
\* returned, whatever Metadata() calls are made afterwards on other views of
\* the same base image.
C8_HeldHistoryUnchanged ==
    \A k \in 1..Len(held) :
        Contents(arrays, held[k].farr, held[k].flen) = held[k].seen

\* C13: every view over the base image, at any depth of wrapping, answers
\* ID() and Data() with the id and the payload the base image was built with,
\* and the base image keeps both while wrappers are constructed around it.
C13_ViewsDelegateIdentityAndPayload ==
    /\ heap[1].kind = "basic"
    /\ heap[1].id = "photo-0"
    /\ heap[1].data = ClientPayload
    /\ \A r \in 1..Len(heap) :
          /\ BaseOf(heap, r) = 1
          /\ ID(heap, r) = heap[1].id
          /\ Data(heap, r) = heap[1].data

\* a decorator around a decorator around the base image
C13_Witness ==
    \E r \in 1..Len(heap) :
        /\ ChainDepth(heap, r) = 2
        /\ heap[r].filter # heap[heap[r].wrapped].filter

\* C9: names folded over a base image with empty history give a chain as
\* deep as the list is long whose Metadata().Filters is the list in order;
\* the empty list gives the base image itself.
C9_FiltersInApplicationOrder ==
    \A names \in DecNameLists :
        heap[1].flen = 0 =>
            LET r == applyFilters(heap, 1, names)
                m == Metadata(r.heap, arrays, r.img)
            IN /\ ~r.panic
               /\ ChainDepth(r.heap, r.img) = Len(names)
               /\ Contents(m.arrays, m.farr, m.flen) = names
               /\ (names = <<>> => r.img = 1)

\* the client holds the history of a chain of two different filters folded
\* over a base image with empty history
C9_Witness ==
    \E k \in 1..Len(held) :
        /\ heap[1].flen = 0
        /\ ChainDepth(heap, held[k].view) = 2
        /\ held[k].seen = <<"grayscale", "sepia">>
        /\ heap[held[k].view].filter = "sepia"

====
